---- MODULE Spec2Model ----
(***************************************************************************)
(* Model of homework.py: the Training hierarchy (Running, SportsWalking,   *)
(* Swimming), the factory read_package, the reporter InfoMessage and the   *)
(* entry point main.                                                       *)
(*                                                                         *)
(* Numbers.  The program computes in Python floats; the model computes in  *)
(* exact rationals <<n, d>> (d > 0, lowest terms), so equalities between   *)
(* computed values are equalities of real arithmetic: the last-bit         *)
(* rounding of IEEE doubles is outside the model.                          *)
(*                                                                         *)
(* Exceptions.  A call yields a result record: [kind |-> "return",         *)
(* value |-> v] or [kind |-> "raise", exc |-> <exception class>, ...].     *)
(* An exception raised by a callee propagates through every caller that    *)
(* has no handler for it.                                                  *)
(***************************************************************************)
EXTENDS Integers, Sequences, FiniteSets

VARIABLES training, built, outcome

vars == <<training, built, outcome>>

----------------------------------------------------------------------------
(* Bounds of the explored inputs. *)

\* action counts are -1000, 0, 1000, ..., MaxKiloSteps * 1000
MaxKiloSteps == 2
\* durations (hours) are -1, 0, 1, ..., MaxDuration
MaxDuration == 2
\* weight, height, pool length and pool laps are 0 .. MaxNum
MaxNum == 1

----------------------------------------------------------------------------
(* Exact rational arithmetic standing for float arithmetic. *)

Abs(i) == IF i < 0 THEN -i ELSE i

RECURSIVE GCD(_, _)
GCD(a, b) == IF b = 0 THEN a ELSE GCD(b, a % b)

\* the rational n / d in lowest terms with a positive denominator (d # 0)
Rat(n, d) ==
    LET g == GCD(Abs(n), Abs(d))
        s == IF d < 0 THEN -1 ELSE 1
    IN  <<(s * n) \div g, (s * d) \div g>>

\* float(i) for an int i
R(i) == <<i, 1>>

RAdd(x, y) == Rat(x[1] * y[2] + y[1] * x[2], x[2] * y[2])
RSub(x, y) == Rat(x[1] * y[2] - y[1] * x[2], x[2] * y[2])

\* cancel across the factors first so that the products stay small
RMul(x, y) ==
    LET g1 == GCD(Abs(x[1]), y[2])
        g2 == GCD(Abs(y[1]), x[2])
    IN  Rat((x[1] \div g1) * (y[1] \div g2), (x[2] \div g2) * (y[2] \div g1))

\* x / y for y # 0 (the caller raises ZeroDivisionError when y = 0)
RDiv(x, y) == RMul(x, Rat(y[2], y[1]))

\* x // y for y # 0: the floor of the quotient, as a float
RFloorDiv(x, y) == LET q == RDiv(x, y) IN R(q[1] \div q[2])

\* x ** n for an integer n >= 0
RECURSIVE RPow(_, _)
RPow(x, n) == IF n = 0 THEN R(1) ELSE RMul(x, RPow(x, n - 1))

RLess(x, y) == x[1] * y[2] < y[1] * x[2]
RLeq(x, y) == x[1] * y[2] <= y[1] * x[2]

Return(v) == [kind |-> "return", value |-> v]
Raise(e) == [kind |-> "raise", exc |-> e]
Returned(r) == r.kind = "return"
Raised(r, e) == r.kind = "raise" /\ r.exc = e

----------------------------------------------------------------------------
(* Class constants. *)

M_IN_KM == 1000
MIN_IN_HOUR == 60
COEFF_CALORIE_RUN_1 == 18
COEFF_CALORIE_RUN_2 == 20
COEFF_CALORIE_WLK_1 == Rat(35, 1000)
COEFF_CALORIE_WLK_2 == Rat(29, 1000)
POWER == 2
COEFF_CALORIE_SWM_1 == Rat(11, 10)
COEFF_CALORIE_SWM_2 == 2

Concrete == {"Running", "SportsWalking", "Swimming"}
Classes == {"Training"} \cup Concrete

\* the value None: an object that is no Training
NoneObj == [cls |-> "NoneType"]

IsTraining(self) == self.cls \in Classes

\* faulty variant: Swimming does not override LEN_STEP
LEN_STEP_wrong(cls) == Rat(65, 100)

\* LEN_STEP as attribute lookup finds it: Swimming overrides the base value
LEN_STEP(cls) == IF cls = "Swimming" THEN Rat(138, 100) ELSE Rat(65, 100)

----------------------------------------------------------------------------
(* Constructors. *)

Training__init__(cls, action, duration, weight) ==
    [cls |-> cls, action |-> action, duration |-> duration, wight |-> weight]

SportsWalking__init__(cls, action, duration, weight, height) ==
    [cls |-> cls, action |-> action, duration |-> duration, wight |-> weight,
     height |-> height]

\* faulty variant: the two pool fields exchanged
Swimming__init___swapped(cls, action, duration, weight, length_pool, count_pool) ==
    [cls |-> cls, action |-> action, duration |-> duration, wight |-> weight,
     length_pool |-> count_pool, count_pool |-> length_pool]

Swimming__init__(cls, action, duration, weight, length_pool, count_pool) ==
    [cls |-> cls, action |-> action, duration |-> duration, wight |-> weight,
     length_pool |-> length_pool, count_pool |-> count_pool]

\* the class whose __init__ a call of cls(...) runs
InitDefiner(cls) == IF cls = "Running" THEN "Training" ELSE cls

\* the parameters of that __init__ after self
InitParams(cls) ==
    CASE cls = "SportsWalking" -> <<"action", "duration", "weight", "height">>
      [] cls = "Swimming" ->
            <<"action", "duration", "weight", "length_pool", "count_pool">>
      [] OTHER -> <<"action", "duration", "weight">>

----------------------------------------------------------------------------
(* Methods of Training and its subclasses; self is an instance record. *)

get_distance(self) ==
    Return(RDiv(RMul(R(self.action), LEN_STEP(self.cls)), R(M_IN_KM)))

Training_get_mean_speed(self) ==
    LET d == get_distance(self)
    IN  IF self.duration = 0 THEN Raise("ZeroDivisionError")
        ELSE Return(RDiv(d.value, R(self.duration)))

Swimming_get_mean_speed(self) ==
    IF self.duration = 0 THEN Raise("ZeroDivisionError")
    ELSE Return(RDiv(RDiv(R(self.length_pool * self.count_pool), R(M_IN_KM)),
                     R(self.duration)))

\* faulty variant: a zero duration yields speed 0 instead of an exception
get_mean_speed_safe(self) ==
    IF self.duration = 0 THEN Return(R(0))
    ELSE IF self.cls = "Swimming" THEN Swimming_get_mean_speed(self)
    ELSE Training_get_mean_speed(self)

\* faulty variant: Swimming does not override get_mean_speed
get_mean_speed_base(self) == Training_get_mean_speed(self)

\* method resolution: Swimming overrides get_mean_speed
get_mean_speed(self) ==
    IF self.cls = "Swimming" THEN Swimming_get_mean_speed(self)
    ELSE Training_get_mean_speed(self)

duration_to_min(self) == Return(R(self.duration * MIN_IN_HOUR))

Training_get_spent_calories(self) == Raise("NotImplementedError")

Running_get_spent_calories(self) ==
    LET s == get_mean_speed(self)
    IN  IF ~Returned(s) THEN s
        ELSE Return(RMul(RDiv(RMul(RSub(RMul(R(COEFF_CALORIE_RUN_1), s.value),
                                        R(COEFF_CALORIE_RUN_2)),
                                   R(self.wight)),
                              R(M_IN_KM)),
                         duration_to_min(self).value))

\* faulty variant: the quotient (/) in place of its floor (//)
SportsWalking_get_spent_calories_truediv(self) ==
    LET s == get_mean_speed(self)
    IN  IF ~Returned(s) THEN s
        ELSE IF self.height = 0 THEN Raise("ZeroDivisionError")
        ELSE Return(RMul(RAdd(RMul(COEFF_CALORIE_WLK_1, R(self.wight)),
                              RMul(RMul(RDiv(RPow(s.value, POWER),
                                             R(self.height)),
                                        COEFF_CALORIE_WLK_2),
                                   R(self.wight))),
                         duration_to_min(self).value))

SportsWalking_get_spent_calories(self) ==
    LET s == get_mean_speed(self)
    IN  IF ~Returned(s) THEN s
        ELSE IF self.height = 0 THEN Raise("ZeroDivisionError")
        ELSE Return(RMul(RAdd(RMul(COEFF_CALORIE_WLK_1, R(self.wight)),
                              RMul(RMul(RFloorDiv(RPow(s.value, POWER),
                                                  R(self.height)),
                                        COEFF_CALORIE_WLK_2),
                                   R(self.wight))),
                         duration_to_min(self).value))

Swimming_get_spent_calories(self) ==
    LET s == get_mean_speed(self)
    IN  IF ~Returned(s) THEN s
        ELSE Return(RMul(RMul(RAdd(s.value, COEFF_CALORIE_SWM_1),
                              R(COEFF_CALORIE_SWM_2)),
                         R(self.wight)))

\* method resolution: every concrete class overrides get_spent_calories
get_spent_calories(self) ==
    CASE self.cls = "Running" -> Running_get_spent_calories(self)
      [] self.cls = "SportsWalking" -> SportsWalking_get_spent_calories(self)
      [] self.cls = "Swimming" -> Swimming_get_spent_calories(self)
      [] OTHER -> Training_get_spent_calories(self)

InfoMessage(training_type, duration, distance, speed, calories) ==
    [training_type |-> training_type, duration |-> duration,
     distance |-> distance, speed |-> speed, calories |-> calories]

\* faulty variant: the report takes the base-class speed for every variant
show_training_info_base_speed(self) ==
    LET d == get_distance(self)
        s == Training_get_mean_speed(self)
        c == get_spent_calories(self)
    IN  IF ~Returned(s) THEN s
        ELSE IF ~Returned(c) THEN c
        ELSE Return(InfoMessage(self.cls, self.duration, d.value, s.value,
                                c.value))

\* the arguments are evaluated left to right; the first exception propagates
show_training_info(self) ==
    LET d == get_distance(self)
        s == get_mean_speed(self)
        c == get_spent_calories(self)
    IN  IF ~Returned(s) THEN s
        ELSE IF ~Returned(c) THEN c
        ELSE Return(InfoMessage(self.cls, self.duration, d.value, s.value,
                                c.value))

----------------------------------------------------------------------------
(* InfoMessage.get_message: every number rendered with '{:.3f}'. *)

\* The renderings of the float x by '{:.3f}': a sign and a count of
\* thousandths.  The float nearest to a real half-way case lies on either
\* side of it, and a float zero may be -0.0 (0.0 / -1), which a rational does
\* not record: where the exact value leaves the text open, both texts are
\* allowed (negzero tells whether the value was computed by a division or a
\* product that can yield -0.0).
FormatF3(x, negzero) ==
    LET y == RMul(x, R(1000))
        lo == y[1] \div y[2]
        twice == 2 * (y[1] - lo * y[2])
        ms == IF twice < y[2] THEN {lo}
              ELSE IF twice > y[2] THEN {lo + 1}
              ELSE {lo, lo + 1}
        signs == IF x[1] < 0 THEN {TRUE}
                 ELSE IF x[1] = 0 /\ negzero THEN {TRUE, FALSE}
                 ELSE {FALSE}
    IN  {[neg |-> sg, milli |-> Abs(m)] : sg \in signs, m \in ms}

\* the texts MESSAGE.format(**asdict(info)) can produce
get_message(info) ==
    {[line |-> "MESSAGE", training_type |-> info.training_type,
      duration |-> du, distance |-> di, speed |-> sp, calories |-> ca] :
        du \in FormatF3(R(info.duration), FALSE),
        di \in FormatF3(info.distance, FALSE),
        sp \in FormatF3(info.speed, TRUE),
        ca \in FormatF3(info.calories, TRUE)}

\* 'Не удается вывести информацию о тренировке.'
CannotShow == [line |-> "CannotShow"]

----------------------------------------------------------------------------
(* read_package. *)

workouts == [SWM |-> "Swimming", RUN |-> "Running", WLK |-> "SportsWalking"]

\* faulty variant: missing arguments default to 0, extra ones are dropped
Call_lenient(cls, data) ==
    LET a(i) == IF i <= Len(data) THEN data[i] ELSE 0
    IN  CASE cls = "SportsWalking" ->
               Return(SportsWalking__init__(cls, a(1), a(2), a(3), a(4)))
          [] cls = "Swimming" ->
               Return(Swimming__init__(cls, a(1), a(2), a(3), a(4), a(5)))
          [] OTHER -> Return(Training__init__(cls, a(1), a(2), a(3)))

\* cls(*data): binding data to the parameters of __init__, then its body.
\* The qualified name in the TypeError message is that of the function
\* called, so it names the class that defines __init__.
Call(cls, data) ==
    LET params == InitParams(cls)
    IN  IF Len(data) < Len(params)
        THEN [kind |-> "raise", exc |-> "TypeError", func |-> InitDefiner(cls),
              missing |-> SubSeq(params, Len(data) + 1, Len(params))]
        ELSE IF Len(data) > Len(params)
        THEN [kind |-> "raise", exc |-> "TypeError", func |-> InitDefiner(cls),
              takes |-> Len(params) + 1, given |-> Len(data) + 1]
        ELSE CASE cls = "SportsWalking" ->
                    Return(SportsWalking__init__(cls, data[1], data[2], data[3],
                                                 data[4]))
               [] cls = "Swimming" ->
                    Return(Swimming__init__(cls, data[1], data[2], data[3],
                                            data[4], data[5]))
               [] OTHER ->
                    Return(Training__init__(cls, data[1], data[2], data[3]))

\* faulty variant: the number of arguments is examined before the code
read_package_arity_first(workout_type, data) ==
    IF Len(data) \notin {Len(InitParams(c)) : c \in Concrete}
    THEN Call("Running", data)
    ELSE IF workout_type \notin DOMAIN workouts
    THEN [kind |-> "raise", exc |-> "ValueError", code |-> workout_type]
    ELSE Call(workouts[workout_type], data)

read_package(workout_type, data) ==
    IF workout_type \notin DOMAIN workouts
    THEN [kind |-> "raise", exc |-> "ValueError", code |-> workout_type]
    ELSE Call(workouts[workout_type], data)

----------------------------------------------------------------------------
(* main: what it returns or raises, and what it prints. *)

\* training.show_training_info() on any object: an object without the
\* method raises AttributeError at the attribute lookup
call_show_training_info(obj) ==
    IF IsTraining(obj) THEN show_training_info(obj)
    ELSE Raise("AttributeError")

\* the possible [res, out] of main(obj); the handler catches AttributeError
\* alone, every other exception leaves main
main(obj) ==
    LET info == call_show_training_info(obj)
    IN  IF Returned(info)
        THEN {[res |-> Return(NoneObj), out |-> <<m>>] :
                 m \in get_message(info.value)}
        ELSE IF info.exc = "AttributeError"
        THEN {[res |-> Return(NoneObj), out |-> <<CannotShow>>]}
        ELSE {[res |-> info, out |-> <<>>]}

----------------------------------------------------------------------------
(* Inputs. *)

Actions == {k * M_IN_KM : k \in -1 .. MaxKiloSteps}
Durations == -1 .. MaxDuration
Small == 0 .. MaxNum

\* the type codes tried: the three known ones and two unknown ones
Codes == {"SWM", "RUN", "WLK", "XYZ", "run"}

\* one argument more than the longest parameter list
MaxArgs == Len(InitParams("Swimming")) + 1

ArgDomain(i) == CASE i = 1 -> Actions [] i = 2 -> Durations [] OTHER -> Small

RECURSIVE Lists(_)
Lists(n) ==
    IF n = 0 THEN {<<>>}
    ELSE {Append(s, v) : s \in Lists(n - 1), v \in ArgDomain(n)}

\* the packages of the driver
packages == {<<"SWM", <<720, 1, 80, 25, 40>>>>,
             <<"RUN", <<15000, 1, 75>>>>,
             <<"WLK", <<9000, 1, 75, 180>>>>}

Packages ==
    packages \cup
    {<<c, d>> : c \in Codes, d \in UNION {Lists(n) : n \in 0 .. MaxArgs}}

----------------------------------------------------------------------------
(* The state: the instance the caller holds (training), the field values    *)
(* its constructor was given (built), and the last call with its result and *)
(* what it printed (outcome).                                               *)

Idle == [op |-> "none", args |-> <<>>, res |-> Return(NoneObj), out |-> <<>>]

Queries == {"get_distance", "get_mean_speed", "get_spent_calories",
            "duration_to_min", "show_training_info"}

Init ==
    /\ training = NoneObj
    /\ built = NoneObj
    /\ outcome = Idle

\* training = read_package(workout_type, data), at the start of an iteration
\* of the driver's loop (no instance is held yet); a raised exception binds
\* none
ReadPackage ==
    /\ outcome = Idle
    /\ \E p \in Packages :
         LET r == read_package(p[1], p[2])
         IN  /\ outcome' = [op |-> "read_package", args |-> p, res |-> r,
                            out |-> <<>>]
             /\ training' = IF Returned(r) THEN r.value ELSE training
             /\ built' = training'

\* Training(action, duration, weight): the base class instantiated directly
NewTraining ==
    /\ outcome = Idle
    /\ \E a \in Actions, d \in Durations, w \in Small :
         LET r == Call("Training", <<a, d, w>>)
         IN  /\ outcome' = [op |-> "Training", args |-> <<a, d, w>>, res |-> r,
                            out |-> <<>>]
             /\ training' = r.value
             /\ built' = training'

\* the record of a method call on the instance and its result
Called(op, res) == [op |-> op, args |-> <<>>, res |-> res, out |-> <<>>]

GetDistance ==
    /\ IsTraining(training)
    /\ outcome' = Called("get_distance", get_distance(training))
    /\ UNCHANGED <<training, built>>

\* faulty variant: the query rescales the duration it read
GetMeanSpeed_scaling ==
    /\ IsTraining(training)
    /\ outcome' = Called("get_mean_speed", get_mean_speed(training))
    /\ training' = [training EXCEPT !.duration = @ * MIN_IN_HOUR]
    /\ UNCHANGED built

GetMeanSpeed ==
    /\ IsTraining(training)
    /\ outcome' = Called("get_mean_speed", get_mean_speed(training))
    /\ UNCHANGED <<training, built>>

GetSpentCalories ==
    /\ IsTraining(training)
    /\ outcome' = Called("get_spent_calories", get_spent_calories(training))
    /\ UNCHANGED <<training, built>>

DurationToMin ==
    /\ IsTraining(training)
    /\ outcome' = Called("duration_to_min", duration_to_min(training))
    /\ UNCHANGED <<training, built>>

ShowTrainingInfo ==
    /\ IsTraining(training)
    /\ outcome' = Called("show_training_info", show_training_info(training))
    /\ UNCHANGED <<training, built>>

\* main(training), on an instance or on an object that is none
Main ==
    /\ \E o \in main(training) :
         outcome' = [op |-> "main", args |-> <<>>, res |-> o.res, out |-> o.out]
    /\ UNCHANGED <<training, built>>

\* the next iteration of the driver's loop: the instance is dropped
NextPackage ==
    /\ outcome # Idle
    /\ training' = NoneObj
    /\ built' = NoneObj
    /\ outcome' = Idle

Next ==
    \/ ReadPackage
    \/ NewTraining
    \/ GetDistance
    \/ GetMeanSpeed
    \/ GetSpentCalories
    \/ DurationToMin
    \/ ShowTrainingInfo
    \/ Main
    \/ NextPackage

Spec == Init /\ [][Next]_vars

----------------------------------------------------------------------------
(* Properties. *)

\* the type codes and field counts the specification declares
KnownCodes == {"SWM", "RUN", "WLK"}
ExpectedCount == [RUN |-> 3, WLK |-> 4, SWM |-> 5]
VariantOf == [RUN |-> "Running", WLK |-> "SportsWalking", SWM |-> "Swimming"]

IsRead == outcome.op = "read_package"
Code == outcome.args[1]
Data == outcome.args[2]
ArityMismatch == IsRead /\ Code \in KnownCodes /\ Len(Data) # ExpectedCount[Code]

\* C1: read_package raises the unknown-code error (ValueError naming the
\* code) for every code outside SWM, RUN, WLK, whatever the arguments and
\* their number are; it is never the arity error, and no instance is built.
C1_UnknownCodeRaisesValueError ==
    (IsRead /\ Code \notin KnownCodes) =>
        /\ Raised(outcome.res, "ValueError")
        /\ outcome.res.code = Code
        /\ training = NoneObj

\* an unknown code with a number of arguments that fits no variant
C1_Witness ==
    /\ IsRead
    /\ Code = "XYZ"
    /\ Len(Data) = 2
    /\ Raised(outcome.res, "ValueError")

\* C2 (as stated): a known code with a wrong number of arguments fails with
\* an arity error that names the variant and the expected field count.
C2_ArityErrorNamesVariantAndCount ==
    ArityMismatch =>
        /\ Raised(outcome.res, "TypeError")
        /\ training = NoneObj
        /\ outcome.res.func = VariantOf[Code]
        /\ "takes" \in DOMAIN outcome.res
        /\ outcome.res.takes = ExpectedCount[Code]

\* C2 (amended): a known code with a wrong number of arguments, too few or
\* too many, fails with the TypeError of the constructor call and no
\* instance is built.  The message names the class that defines __init__
\* (Training for RUN) and, for too few arguments, the parameters left
\* unbound, for too many, the positional counts with self included.
C2_ArityMismatchRaisesTypeError ==
    ArityMismatch =>
        /\ Raised(outcome.res, "TypeError")
        /\ training = NoneObj
        /\ outcome.res.func = (IF Code = "RUN" THEN "Training" ELSE VariantOf[Code])
        /\ Len(Data) < ExpectedCount[Code] =>
              Len(outcome.res.missing) = ExpectedCount[Code] - Len(Data)
        /\ Len(Data) > ExpectedCount[Code] =>
              /\ outcome.res.takes = ExpectedCount[Code] + 1
              /\ outcome.res.given = Len(Data) + 1

\* RUN with two arguments: weight is missing
C2_Witness ==
    /\ IsRead
    /\ Code = "RUN"
    /\ Len(Data) = 2
    /\ Raised(outcome.res, "TypeError")
    /\ outcome.res.missing = <<"weight">>

\* C3: a known code with exactly the variant's number of arguments returns
\* an instance of the variant the code selects, whose fields are the
\* arguments in order: action, duration, weight, then height (WLK) or
\* length_pool, count_pool (SWM).
C3_ReadPackageBuildsVariant ==
    (IsRead /\ Code \in KnownCodes /\ Len(Data) = ExpectedCount[Code]) =>
        /\ Returned(outcome.res)
        /\ outcome.res.value = training
        /\ training.cls = VariantOf[Code]
        /\ training.action = Data[1]
        /\ training.duration = Data[2]
        /\ training.wight = Data[3]
        /\ Code = "RUN" => DOMAIN training = {"cls", "action", "duration", "wight"}
        /\ Code = "WLK" =>
              /\ DOMAIN training = {"cls", "action", "duration", "wight", "height"}
              /\ training.height = Data[4]
        /\ Code = "SWM" =>
              /\ DOMAIN training = {"cls", "action", "duration", "wight",
                                    "length_pool", "count_pool"}
              /\ training.length_pool = Data[4]
              /\ training.count_pool = Data[5]

\* a Swimming built from a pool length and a lap count that differ
C3_Witness ==
    /\ IsRead
    /\ Code = "SWM"
    /\ Returned(outcome.res)
    /\ Len(Data) = 5
    /\ Data[4] # Data[5]
    /\ training.cls = "Swimming"

SpeedDependent == {"get_mean_speed", "get_spent_calories", "show_training_info"}

\* C4 (as stated): with a duration <= 0 no concrete variant yields a mean
\* speed, calories or a report: each call raises the division error, and
\* main prints nothing.
C4_NonPositiveDurationRaises ==
    (/\ training.cls \in Concrete
     /\ training.duration <= 0
     /\ outcome.op \in SpeedDependent \cup {"main"}) =>
        /\ Raised(outcome.res, "ZeroDivisionError")
        /\ outcome.out = <<>>

\* C4 (amended): with a duration of exactly 0 every concrete variant raises
\* ZeroDivisionError from get_mean_speed, get_spent_calories and
\* show_training_info, and main lets it through without printing; with a
\* negative duration get_mean_speed returns a value.
C4_ZeroDurationRaises ==
    /\ (/\ training.cls \in Concrete
        /\ training.duration = 0
        /\ outcome.op \in SpeedDependent \cup {"main"}) =>
           /\ Raised(outcome.res, "ZeroDivisionError")
           /\ outcome.out = <<>>
    /\ (/\ training.cls \in Concrete
        /\ training.duration < 0
        /\ outcome.op = "get_mean_speed") => Returned(outcome.res)

\* a report asked of a Swimming of duration 0
C4_Witness ==
    /\ training.cls = "Swimming"
    /\ training.duration = 0
    /\ outcome.op = "show_training_info"
    /\ Raised(outcome.res, "ZeroDivisionError")

\* C5: main, given an instance of the base class Training (duration > 0),
\* whose get_spent_calories is undefined, prints the cannot-show line and no
\* summary line, and returns.
C5_MainSurfacesCannotShow ==
    (outcome.op = "main" /\ training.cls = "Training" /\ training.duration > 0) =>
        /\ Returned(outcome.res)
        /\ outcome.out = <<CannotShow>>

\* C6: the mean speed of a Swimming with duration > 0 is
\* length_pool * count_pool / 1000 / duration, and it is the same for every
\* other action count and weight.
C6_SwimmingSpeedFromPool ==
    (/\ training.cls = "Swimming"
     /\ training.duration > 0
     /\ outcome.op = "get_mean_speed") =>
        /\ Returned(outcome.res)
        /\ outcome.res.value =
              Rat(training.length_pool * training.count_pool,
                  1000 * training.duration)
        /\ \A a \in Actions, w \in Small :
              get_mean_speed([training EXCEPT !.action = a, !.wight = w])
                 = outcome.res

\* a Swimming whose pool speed is not its stroke distance over its duration
C6_Witness ==
    /\ training.cls = "Swimming"
    /\ training.duration > 0
    /\ training.action > 0
    /\ outcome.op = "get_mean_speed"
    /\ Returned(outcome.res)
    /\ RMul(outcome.res.value, R(training.duration)) # get_distance(training).value

\* the speed of a SportsWalking, squared: (action * 0.65 / 1000 / duration)^2
WalkingSpeedSquared ==
    LET v == Rat(training.action * 65, 100 * 1000 * training.duration)
    IN  RMul(v, v)

\* k is the floor of x / h for an integer h # 0
IsFloorOfQuotient(k, x, h) ==
    /\ RLeq(R(k), RDiv(x, R(h)))
    /\ RLess(RDiv(x, R(h)), R(k + 1))

WalkingCaloriesWith(k) ==
    RMul(RAdd(RMul(Rat(35, 1000), R(training.wight)),
              RMul(RMul(R(k), Rat(29, 1000)), R(training.wight))),
         R(training.duration * 60))

\* C7: the calories of a SportsWalking are
\* (0.035 * weight + floor(speed^2 / height) * 0.029 * weight) * minutes,
\* with the floor of the quotient and not the quotient; when
\* 0 <= speed^2 < height the floor is 0 and the result is
\* 0.035 * weight * duration * 60, which is 157.5 for WLK [9000, 1, 75, 180].
C7_WalkingCaloriesFloor ==
    (/\ training.cls = "SportsWalking"
     /\ training.duration # 0
     /\ training.height # 0
     /\ outcome.op = "get_spent_calories") =>
        LET sq == WalkingSpeedSquared
            n == sq[1] \div sq[2] + 1
        IN  /\ Returned(outcome.res)
            /\ \E k \in -n .. n :
                  /\ IsFloorOfQuotient(k, sq, training.height)
                  /\ outcome.res.value = WalkingCaloriesWith(k)
            /\ RLess(sq, R(training.height)) =>
                  outcome.res.value =
                     RMul(RMul(Rat(35, 1000), R(training.wight)),
                          R(training.duration * 60))
            /\ (/\ training.action = 9000
                /\ training.duration = 1
                /\ training.wight = 75
                /\ training.height = 180) => outcome.res.value = Rat(315, 2)

\* a SportsWalking whose squared speed is at least its height, and no
\* multiple of it: the floor is not 0 and differs from the quotient
C7_Witness ==
    /\ training.cls = "SportsWalking"
    /\ training.duration > 0
    /\ training.height > 0
    /\ training.wight > 0
    /\ outcome.op = "get_spent_calories"
    /\ Returned(outcome.res)
    /\ RLess(R(training.height), WalkingSpeedSquared)
    /\ outcome.res.value # WalkingCaloriesWith(0)

\* C8: the distance of every variant is action * step / 1000 with the step
\* 0.65 for Running and SportsWalking and 1.38 for Swimming, whatever the
\* other fields are, and it is >= 0 when action >= 0.
C8_DistanceFormula ==
    (training.cls \in Concrete /\ outcome.op = "get_distance") =>
        /\ Returned(outcome.res)
        /\ outcome.res.value =
              Rat(training.action * (IF training.cls = "Swimming" THEN 138 ELSE 65),
                  100 * 1000)
        /\ training.action >= 0 => RLeq(R(0), outcome.res.value)

\* the distance of a Swimming that made strokes
C8_Witness ==
    /\ training.cls = "Swimming"
    /\ training.action > 0
    /\ outcome.op = "get_distance"
    /\ RLess(R(0), outcome.res.value)

\* what a report of the instance must hold
ReportIsOwnMetrics ==
    /\ Returned(outcome.res)
    /\ outcome.res.value.training_type = training.cls
    /\ outcome.res.value.duration = training.duration
    /\ Return(outcome.res.value.distance) = get_distance(training)
    /\ Return(outcome.res.value.speed) = get_mean_speed(training)
    /\ Return(outcome.res.value.calories) = get_spent_calories(training)
    /\ training.cls = "Swimming" =>
          outcome.res.value.speed =
             Rat(training.length_pool * training.count_pool,
                 1000 * training.duration)
    /\ training.cls # "Swimming" =>
          RMul(outcome.res.value.speed, R(training.duration))
             = outcome.res.value.distance

\* C9 (as stated): for every concrete variant with duration > 0,
\* show_training_info returns an InfoMessage with the class name, the
\* duration and the variant's own distance, mean speed and calories; the
\* speed of a Swimming is its pool speed, and for the other two variants
\* speed * duration is the distance.
C9_ReportOfEveryVariant ==
    (/\ training.cls \in Concrete
     /\ training.duration > 0
     /\ outcome.op = "show_training_info") => ReportIsOwnMetrics

\* C9 (amended): the same for every concrete variant with duration > 0 and,
\* for SportsWalking, height # 0.
C9_ReportOfValidVariant ==
    (/\ training.cls \in Concrete
     /\ training.duration > 0
     /\ training.cls = "SportsWalking" => training.height # 0
     /\ outcome.op = "show_training_info") => ReportIsOwnMetrics

\* the report of a Swimming whose speed times duration is not its distance
C9_Witness ==
    /\ training.cls = "Swimming"
    /\ training.duration > 0
    /\ outcome.op = "show_training_info"
    /\ Returned(outcome.res)
    /\ RMul(outcome.res.value.speed, R(training.duration))
          # outcome.res.value.distance

\* the result of the query op on the instance self
QueryOf(op, self) ==
    CASE op = "get_distance" -> get_distance(self)
      [] op = "get_mean_speed" -> get_mean_speed(self)
      [] op = "get_spent_calories" -> get_spent_calories(self)
      [] op = "duration_to_min" -> duration_to_min(self)
      [] op = "show_training_info" -> show_training_info(self)

\* C10: after any sequence of queries, failed ones included, the instance
\* holds the field values its constructor was given, and the result of the
\* last query is the one the constructed values give: the result of the
\* first such query.
C10_QueriesLeaveFields ==
    /\ training = built
    /\ outcome.op \in Queries => outcome.res = QueryOf(outcome.op, built)

\* a query that ended in an error, on an instance
C10_Witness ==
    /\ training.cls \in Concrete
    /\ training = built
    /\ outcome.op = "get_spent_calories"
    /\ outcome.res.kind = "raise"

====
